---- MODULE Spec2Model ----
(***************************************************************************)
(* wasm-imports-parser: the import-section decoder (index.js, carried in   *)
(* src/test/check.mjs lines 223-504) and the WebAssembly polyfill          *)
(* (src/polyfill.js).                                                      *)
(*                                                                         *)
(* Bytes are integers 0..255.  A cursor is the pair (bs, off) of the       *)
(* ParseState's moduleBytes and offset.  Every decoder returns a record    *)
(*   [ok, v, off, eof, err]                                                *)
(* ok  = the decoder returned normally (FALSE: it threw err),              *)
(* v   = the returned value,  off = the offset it leaves,                  *)
(* eof = some read it made was outside 0..length-1 (history only).         *)
(* A decoder's successive reads are the parameters of the operators       *)
(* defined before it, in the order the code makes them.                    *)
(* JavaScript numbers produced by |= and << are signed 32-bit integers;    *)
(* they are kept as sets of bit positions 0..31 while being assembled.     *)
(***************************************************************************)
EXTENDS Integers, Sequences, FiniteSets, TLC

\* ------------------------------------------------------------------------
\* JavaScript values
\* ------------------------------------------------------------------------

\* moduleBytes[i] for an index outside the array: undefined
Undefined == -1

\* types[index] for an index outside the list: undefined
UndefinedType == [undefined |-> TRUE]

Ok(v, off, eof) == [ok |-> TRUE, v |-> v, off |-> off, eof |-> eof, err |-> "none"]

Fail(err, off, eof) == [ok |-> FALSE, v |-> Undefined, off |-> off, eof |-> eof, err |-> err]

Min(a, b) == IF a < b THEN a ELSE b

Max(a, b) == IF a > b THEN a ELSE b

RECURSIVE Pow2(_)
Pow2(n) == IF n = 0 THEN 1 ELSE 2 * Pow2(n - 1)

\* byte & mask for a mask 2^k (0 for undefined, as ToInt32(undefined) = 0)
BitAnd1(byte, k) == IF byte = Undefined THEN 0 ELSE (byte \div Pow2(k)) % 2

\* byte & 0x7F
And7F(byte) == IF byte = Undefined THEN 0 ELSE byte % 128

\* the bit positions set in x << shift; JavaScript takes the shift count
\* modulo 32 and drops the bits that leave the 32-bit word
ShiftLeft(x, shift) ==
    {i + (shift % 32) : i \in {j \in 0..6 : (x \div Pow2(j)) % 2 = 1}} \cap (0..31)

RECURSIVE SumBits(_, _)
SumBits(bits, i) ==
    IF i > 30 THEN 0
    ELSE (IF i \in bits THEN Pow2(i) ELSE 0) + SumBits(bits, i + 1)

\* the signed 32-bit integer whose two's complement bits are `bits`
ToInt32(bits) ==
    IF 31 \in bits THEN (SumBits(bits, 0) - 1073741824) - 1073741824
    ELSE SumBits(bits, 0)

\* ------------------------------------------------------------------------
\* class ParseState
\* ------------------------------------------------------------------------

InBounds(bs, off) == off >= 0 /\ off < Len(bs)

hasMoreBytes(bs, off) == off < Len(bs)

readByte(bs, off) ==
    Ok(IF InBounds(bs, off) THEN bs[off + 1] ELSE Undefined, off + 1, ~InBounds(bs, off))

\* skipBytes going one byte too far
skipBytes_OneMore(bs, off, count) == Ok(Undefined, off + count + 1, off + count + 1 > Len(bs))

skipBytes(bs, off, count) == Ok(Undefined, off + count, off + count > Len(bs))

\* do { byte = this.readByte(); result |= (byte & 0x7F) << shift; shift += 7 }
\* while (byte & 0x80)
RECURSIVE LEB128Loop(_, _, _, _, _)
LEB128Step(bs, byte, result, shift, eof) ==
    IF BitAnd1(byte.v, 7) # 0
    THEN LEB128Loop(bs, byte.off, result, shift + 7, eof \/ byte.eof)
    ELSE Ok(ToInt32(result), byte.off, eof \/ byte.eof)

LEB128Read(bs, byte, result, shift, eof) ==
    LEB128Step(bs, byte, result \cup ShiftLeft(And7F(byte.v), shift), shift, eof)

LEB128Loop(bs, off, result, shift, eof) ==
    LEB128Read(bs, readByte(bs, off), result, shift, eof)

readUnsignedLEB128(bs, off) == LEB128Loop(bs, off, {}, 0, FALSE)

\* Uint8Array.prototype.slice(start, end)
Slice(bs, start, end) ==
    LET rel(x) == IF x < 0 THEN Max(Len(bs) + x, 0) ELSE Min(x, Len(bs))
    IN  SubSeq(bs, rel(start) + 1, rel(end))

\* TextDecoder("utf-8").decode: the WHATWG UTF-8 decoder, replacement mode.
\* need = continuation bytes still expected, cp = code point so far,
\* lo..hi = the range allowed for the next continuation byte.
RECURSIVE Utf8Loop(_, _, _, _, _, _, _)
Utf8Loop(bs, i, cp, need, lo, hi, out) ==
    IF i > Len(bs) THEN (IF need # 0 THEN Append(out, 65533) ELSE out)
    ELSE LET b == bs[i] IN
      IF need = 0 THEN
        IF b <= 127 THEN Utf8Loop(bs, i + 1, 0, 0, 128, 191, Append(out, b))
        ELSE IF b >= 194 /\ b <= 223 THEN Utf8Loop(bs, i + 1, b % 32, 1, 128, 191, out)
        ELSE IF b >= 224 /\ b <= 239
          THEN Utf8Loop(bs, i + 1, b % 16, 2,
                        IF b = 224 THEN 160 ELSE 128, IF b = 237 THEN 159 ELSE 191, out)
        ELSE IF b >= 240 /\ b <= 244
          THEN Utf8Loop(bs, i + 1, b % 8, 3,
                        IF b = 240 THEN 144 ELSE 128, IF b = 244 THEN 143 ELSE 191, out)
        ELSE Utf8Loop(bs, i + 1, 0, 0, 128, 191, Append(out, 65533))
      ELSE IF b < lo \/ b > hi
        THEN Utf8Loop(bs, i, 0, 0, 128, 191, Append(out, 65533))
      ELSE IF need = 1
        THEN Utf8Loop(bs, i + 1, 0, 0, 128, 191, Append(out, cp * 64 + (b % 64)))
      ELSE Utf8Loop(bs, i + 1, cp * 64 + (b % 64), need - 1, 128, 191, out)

\* decode() of a decoder built without ignoreBOM drops one leading U+FEFF
DropBOM(text) == IF Len(text) > 0 /\ text[1] = 65279 THEN Tail(text) ELSE text

textDecoderDecode(bs) == DropBOM(Utf8Loop(bs, 1, 0, 0, 128, 191, <<>>))

\* the name of the nameLength bytes after the length
NameOf(bs, nameLength) ==
    Ok(textDecoderDecode(Slice(bs, nameLength.off, nameLength.off + nameLength.v)),
       nameLength.off + nameLength.v,
       nameLength.eof \/ (nameLength.v > 0 /\ nameLength.off + nameLength.v > Len(bs)))

readName(bs, off) == NameOf(bs, readUnsignedLEB128(bs, off))

\* assertBytes comparing only the bytes the input has
assertBytes_InBoundsOnly(bs, off, expected) ==
    IF \E i \in 1..Len(expected) : InBounds(bs, off + i - 1) /\ bs[off + i] # expected[i]
    THEN Fail("header", off, FALSE)
    ELSE Ok(Undefined, off + Len(expected), FALSE)

assertBytes(bs, off, expected) ==
    IF \E i \in 1..Len(expected) :
          (IF InBounds(bs, off + i - 1) THEN bs[off + i] ELSE Undefined) # expected[i]
    THEN Fail("header", off, FALSE)
    ELSE Ok(Undefined, off + Len(expected), FALSE)

parseMagicNumber(bs, off) == assertBytes(bs, off, <<0, 97, 115, 109>>)

parseVersion(bs, off) == assertBytes(bs, off, <<1, 0, 0, 0>>)

\* ------------------------------------------------------------------------
\* type decoders
\* ------------------------------------------------------------------------

\* switch (type) of parseValueType
ValueTypeOf(type) ==
    CASE type.v = 127 -> Ok("i32", type.off, type.eof)
      [] type.v = 126 -> Ok("i64", type.off, type.eof)
      [] type.v = 125 -> Ok("f32", type.off, type.eof)
      [] type.v = 124 -> Ok("f64", type.off, type.eof)
      [] type.v = 112 -> Ok("funcref", type.off, type.eof)
      [] type.v = 111 -> Ok("externref", type.off, type.eof)
      [] type.v = 123 -> Ok("v128", type.off, type.eof)
      [] OTHER -> Fail("UnknownValueType", type.off, type.eof)

parseValueType(bs, off) == ValueTypeOf(readByte(bs, off))

\* for (let i = 0; i < count; i++) acc.push(parseValueType(parseState))
RECURSIVE ValueTypeLoop(_, _, _, _, _, _)
ValueTypePush(bs, count, i, acc, eof, t) ==
    IF ~t.ok THEN Fail(t.err, t.off, eof \/ t.eof)
    ELSE ValueTypeLoop(bs, t.off, count, i + 1, Append(acc, t.v), eof \/ t.eof)

ValueTypeLoop(bs, off, count, i, acc, eof) ==
    IF ~(i < count) THEN Ok(acc, off, eof)
    ELSE ValueTypePush(bs, count, i, acc, eof, parseValueType(bs, off))

\* return { parameters, results }
FunctionTypeOf(parameters, results) ==
    IF ~results.ok THEN results
    ELSE Ok([parameters |-> parameters.v, results |-> results.v], results.off, results.eof)

FunctionTypeResults(bs, parameters, resultCount) ==
    FunctionTypeOf(parameters,
                   ValueTypeLoop(bs, resultCount.off, resultCount.v, 0, <<>>,
                                 parameters.eof \/ resultCount.eof))

FunctionTypeResultCount(bs, parameters) ==
    IF ~parameters.ok THEN parameters
    ELSE FunctionTypeResults(bs, parameters, readUnsignedLEB128(bs, parameters.off))

FunctionTypeParameters(bs, form, parameterCount) ==
    FunctionTypeResultCount(bs, ValueTypeLoop(bs, parameterCount.off, parameterCount.v, 0,
                                              <<>>, form.eof \/ parameterCount.eof))

FunctionTypeForm(bs, form) ==
    IF form.v # 96 THEN Fail("InvalidFunctionTypeForm", form.off, form.eof)
    ELSE FunctionTypeParameters(bs, form, readUnsignedLEB128(bs, form.off))

parseFunctionType(bs, off) == FunctionTypeForm(bs, readByte(bs, off))

\* const shared = (flags & 2) !== 0
LimitsShared(flags) == BitAnd1(flags.v, 1) # 0

\* LimitsIndex with the test of the memory64 flag inverted
LimitsIndex_Inverted(flags) == IF BitAnd1(flags.v, 2) = 0 THEN "i64" ELSE "i32"

\* const isMemory64 = (flags & 4) !== 0; const index = isMemory64 ? "i64" : "i32"
LimitsIndex(flags) == IF BitAnd1(flags.v, 2) # 0 THEN "i64" ELSE "i32"

\* return { minimum, shared, index, maximum }
LimitsWithMaximum(flags, minimum, maximum) ==
    Ok([minimum |-> minimum.v, shared |-> LimitsShared(flags), index |-> LimitsIndex(flags),
        maximum |-> maximum.v],
       maximum.off, flags.eof \/ minimum.eof \/ maximum.eof)

\* if (hasMaximum) ... else return { minimum, shared, index }
LimitsOf(bs, flags, minimum) ==
    IF BitAnd1(flags.v, 0) # 0
    THEN LimitsWithMaximum(flags, minimum, readUnsignedLEB128(bs, minimum.off))
    ELSE Ok([minimum |-> minimum.v, shared |-> LimitsShared(flags),
             index |-> LimitsIndex(flags)],
            minimum.off, flags.eof \/ minimum.eof)

LimitsMinimum(bs, flags) == LimitsOf(bs, flags, readUnsignedLEB128(bs, flags.off))

parseLimits(bs, off) == LimitsMinimum(bs, readByte(bs, off))

\* switch (elementType) of parseTableType
ElementTypeOf(elementType) ==
    CASE elementType.v = 112 -> Ok("funcref", elementType.off, elementType.eof)
      [] elementType.v = 111 -> Ok("externref", elementType.off, elementType.eof)
      [] OTHER -> Fail("UnknownElementType", elementType.off, elementType.eof)

\* if (maximum): undefined and 0 are both falsy
Truthy(type) == "maximum" \in DOMAIN type /\ type.maximum # 0

\* return { element, minimum, maximum } or { element, minimum }
TableTypeOf(element, limits) ==
    IF Truthy(limits.v)
    THEN Ok([element |-> element.v, minimum |-> limits.v.minimum,
             maximum |-> limits.v.maximum], limits.off, element.eof \/ limits.eof)
    ELSE Ok([element |-> element.v, minimum |-> limits.v.minimum],
            limits.off, element.eof \/ limits.eof)

TableLimits(bs, element) ==
    IF ~element.ok THEN element ELSE TableTypeOf(element, parseLimits(bs, element.off))

parseTableType(bs, off) == TableLimits(bs, ElementTypeOf(readByte(bs, off)))

\* return { value, mutable }
GlobalTypeOf(value, mutable) ==
    Ok([value |-> value.v, mutable |-> (mutable.v = 1)], mutable.off,
       value.eof \/ mutable.eof)

GlobalMutable(bs, value) ==
    IF ~value.ok THEN value ELSE GlobalTypeOf(value, readByte(bs, value.off))

parseGlobalType(bs, off) == GlobalMutable(bs, parseValueType(bs, off))

\* ------------------------------------------------------------------------
\* parseImports: the two section bodies
\* ------------------------------------------------------------------------

\* TypeAt counting the types from 1
TypeAt_FromOne(typeList, index) ==
    IF index >= 1 /\ index <= Len(typeList) THEN typeList[index] ELSE UndefinedType

\* types[index]
TypeAt(typeList, index) ==
    IF index >= 0 /\ index < Len(typeList) THEN typeList[index + 1] ELSE UndefinedType

\* case 1: for (let i = 0; i < typeCount; i++) types.push(parseFunctionType(parseState))
RECURSIVE TypeLoop(_, _, _, _, _, _)
TypePush(bs, typeCount, i, typeList, eof, t) ==
    IF ~t.ok THEN Fail(t.err, t.off, eof \/ t.eof)
    ELSE TypeLoop(bs, t.off, typeCount, i + 1, Append(typeList, t.v), eof \/ t.eof)

TypeLoop(bs, off, typeCount, i, typeList, eof) ==
    IF ~(i < typeCount) THEN Ok(typeList, off, eof)
    ELSE TypePush(bs, typeCount, i, typeList, eof, parseFunctionType(bs, off))

\* imports.push({ module, name, kind: "function", type: types[index] })
FunctionImport(module, name, typeList, index, eof) ==
    Ok([module |-> module, name |-> name, kind |-> "function",
        type |-> TypeAt(typeList, index.v)], index.off, eof \/ index.eof)

\* imports.push({ module, name, kind, type: <the decoded type t> })
TypedImport(module, name, kind, t, eof) ==
    IF t.ok
    THEN Ok([module |-> module, name |-> name, kind |-> kind, type |-> t.v],
            t.off, eof \/ t.eof)
    ELSE Fail(t.err, t.off, eof \/ t.eof)

\* switch (type) of an import entry
ImportDescriptor(bs, typeList, module, name, type, eof) ==
    CASE type.v = 0 ->
           FunctionImport(module, name, typeList, readUnsignedLEB128(bs, type.off), eof)
      [] type.v = 1 -> TypedImport(module, name, "table", parseTableType(bs, type.off), eof)
      [] type.v = 2 -> TypedImport(module, name, "memory", parseLimits(bs, type.off), eof)
      [] type.v = 3 -> TypedImport(module, name, "global", parseGlobalType(bs, type.off), eof)
      [] OTHER -> Fail("UnknownImportKind", type.off, eof)

ImportKind(bs, typeList, module, name, type) ==
    ImportDescriptor(bs, typeList, module.v, name.v, type,
                     module.eof \/ name.eof \/ type.eof)

ImportField(bs, typeList, module, name) ==
    ImportKind(bs, typeList, module, name, readByte(bs, name.off))

ImportModule(bs, typeList, module) ==
    ImportField(bs, typeList, module, readName(bs, module.off))

\* one import entry
ImportEntry(bs, off, typeList) == ImportModule(bs, typeList, readName(bs, off))

\* case 2: for (let i = 0; i < importCount; i++) { ... imports.push(...) }
RECURSIVE ImportLoop(_, _, _, _, _, _, _)
ImportPush(bs, importCount, i, typeList, acc, eof, e) ==
    IF ~e.ok THEN Fail(e.err, e.off, eof \/ e.eof)
    ELSE ImportLoop(bs, e.off, importCount, i + 1, typeList, Append(acc, e.v),
                    eof \/ e.eof)

ImportLoop(bs, off, importCount, i, typeList, acc, eof) ==
    IF ~(i < importCount) THEN Ok(acc, off, eof)
    ELSE ImportPush(bs, importCount, i, typeList, acc, eof, ImportEntry(bs, off, typeList))

\* what one iteration of the section loop did: next = "loop" (break: back
\* to the loop test), "return" or "throw"
Iteration(next, sectionId, sectionSize, r, typeList, res) ==
    [next |-> next, id |-> sectionId.v, size |-> sectionSize.v, off |-> r.off,
     types |-> typeList, result |-> res, err |-> r.err,
     eof |-> sectionId.eof \/ sectionSize.eof \/ r.eof]

\* case 1, after the loop: break
TypeSectionEnd(sectionId, sectionSize, r, typeList) ==
    IF r.ok THEN Iteration("loop", sectionId, sectionSize, r, r.v, <<>>)
    ELSE Iteration("throw", sectionId, sectionSize, r, typeList, <<>>)

\* ImportSectionEnd going back to the loop test while bytes are left
ImportSectionEnd_NoEarlyExit(bs, sectionId, sectionSize, r, typeList) ==
    IF r.ok
    THEN Iteration(IF hasMoreBytes(bs, r.off) THEN "loop" ELSE "return",
                   sectionId, sectionSize, r, typeList, r.v)
    ELSE Iteration("throw", sectionId, sectionSize, r, typeList, <<>>)

\* case 2, after the loop: return imports
ImportSectionEnd(bs, sectionId, sectionSize, r, typeList) ==
    IF r.ok THEN Iteration("return", sectionId, sectionSize, r, typeList, r.v)
    ELSE Iteration("throw", sectionId, sectionSize, r, typeList, <<>>)

TypeSectionBody(bs, sectionId, sectionSize, typeCount, typeList) ==
    TypeSectionEnd(sectionId, sectionSize,
                   TypeLoop(bs, typeCount.off, typeCount.v, 0, typeList, typeCount.eof),
                   typeList)

ImportSectionBody(bs, sectionId, sectionSize, importCount, typeList) ==
    ImportSectionEnd(bs, sectionId, sectionSize,
                     ImportLoop(bs, importCount.off, importCount.v, 0, typeList, <<>>,
                                importCount.eof),
                     typeList)

\* switch (sectionId)
SectionSwitch(bs, sectionId, sectionSize, typeList) ==
    CASE sectionId.v = 1 ->
           TypeSectionBody(bs, sectionId, sectionSize,
                           readUnsignedLEB128(bs, sectionSize.off), typeList)
      [] sectionId.v = 2 ->
           ImportSectionBody(bs, sectionId, sectionSize,
                             readUnsignedLEB128(bs, sectionSize.off), typeList)
      [] OTHER ->
           Iteration("loop", sectionId, sectionSize,
                     skipBytes(bs, sectionSize.off, sectionSize.v), typeList, <<>>)

SectionSize(bs, sectionId, typeList) ==
    SectionSwitch(bs, sectionId, readUnsignedLEB128(bs, sectionId.off), typeList)

\* one iteration of while (parseState.hasMoreBytes())
SectionIteration(bs, off, typeList) == SectionSize(bs, readByte(bs, off), typeList)

\* ------------------------------------------------------------------------
\* parseImports as a function of its argument
\* ------------------------------------------------------------------------

\* the section loop runs at most MaxIterations times in the function form
MaxIterations == 12

\* The argument of parseImports: rep is what instanceof tells of it, buffer
\* the bytes of the underlying ArrayBuffer, (byteOffset, byteLength) the
\* window of a view ("other": an object whose .buffer is no ArrayBuffer).
Window(src) == SubSeq(src.buffer, src.byteOffset + 1, src.byteOffset + src.byteLength)

\* the normalization of the argument
Normalize(src) ==
    CASE src.rep = "Uint8Array" -> Ok(Window(src), 0, FALSE)
      [] src.rep = "ArrayBuffer" -> Ok(src.buffer, 0, FALSE)
      [] src.rep = "view" -> Ok(src.buffer, 0, FALSE)
      [] OTHER -> Fail("InvalidArgumentType", 0, FALSE)

Outcome(status, result, err, off, eof) ==
    [status |-> status, result |-> result, err |-> err, off |-> off, eof |-> eof]

\* while (parseState.hasMoreBytes()) { ... } return [];
RECURSIVE SectionLoop(_, _, _, _, _)
AfterIteration(bs, eof, fuel, it) ==
    CASE it.next = "return" -> Outcome("return", it.result, "none", it.off, eof \/ it.eof)
      [] it.next = "throw" -> Outcome("throw", <<>>, it.err, it.off, eof \/ it.eof)
      [] OTHER -> SectionLoop(bs, it.off, it.types, eof \/ it.eof, fuel - 1)

SectionLoop(bs, off, typeList, eof, fuel) ==
    IF ~hasMoreBytes(bs, off) THEN Outcome("return", <<>>, "none", off, eof)
    ELSE IF fuel = 0 THEN Outcome("running", <<>>, "none", off, eof)
    ELSE AfterIteration(bs, eof, fuel, SectionIteration(bs, off, typeList))

AfterVersion(bs, version) ==
    IF ~version.ok THEN Outcome("throw", <<>>, version.err, version.off, FALSE)
    ELSE SectionLoop(bs, version.off, <<>>, FALSE, MaxIterations)

AfterMagicNumber(bs, magic) ==
    IF ~magic.ok THEN Outcome("throw", <<>>, magic.err, magic.off, FALSE)
    ELSE AfterVersion(bs, parseVersion(bs, magic.off))

\* parseImports on the normalized bytes
Decode(bs) == AfterMagicNumber(bs, parseMagicNumber(bs, 0))

AfterNormalize(bytes) ==
    IF ~bytes.ok THEN Outcome("throw", <<>>, bytes.err, 0, FALSE) ELSE Decode(bytes.v)

parseImports(src) == AfterNormalize(Normalize(src))

\* ------------------------------------------------------------------------
\* The inputs: modules in the binary format, and byte strings that are not
\* ------------------------------------------------------------------------

\* the most import entries of one generated import section
MaxImports == 2

\* the most chunks of one generated raw module body
MaxRawChunks == 3

Header == <<0, 97, 115, 109, 1, 0, 0, 0>>

\* the canonical minimal module of the README: one memory import
MinimalModuleBytes == <<0, 97, 115, 109, 1, 0, 0, 0, 2, 6, 1, 0, 0, 2, 0, 1>>

RECURSIVE SeqsUpTo(_, _)
SeqsUpTo(S, n) ==
    IF n = 0 THEN {<<>>}
    ELSE LET shorter == SeqsUpTo(S, n - 1)
         IN  shorter \cup {Append(q, x) : q \in {w \in shorter : Len(w) = n - 1}, x \in S}

RECURSIVE Concat(_)
Concat(seqs) == IF seqs = <<>> THEN <<>> ELSE Head(seqs) \o Concat(Tail(seqs))

Map(Op(_), seq) == [i \in 1..Len(seq) |-> Op(seq[i])]

\* a name: its code points and its UTF-8 encoding
N(text, utf8) == [text |-> text, utf8 |-> utf8]

NoName == N(<<>>, <<>>)

NameA == N(<<97>>, <<97>>)

NameEAcute == N(<<233>>, <<195, 169>>)

NameBomA == N(<<65279, 97>>, <<239, 187, 191, 97>>)

\* an import entry: names, kind byte, the bytes of its descriptor, and for
\* a function import the type index the descriptor holds (-1 otherwise)
E(module, name, kind, kindByte, desc, index) ==
    [module |-> module, name |-> name, kind |-> kind, kindByte |-> kindByte,
     desc |-> desc, index |-> index]

ImportEntries ==
    { E(NoName, NoName, "memory", 2, <<0, 1>>, -1),
      E(NameA, NameA, "function", 0, <<0>>, 0),
      E(NameA, NameEAcute, "function", 0, <<1>>, 1),
      E(NameEAcute, NameA, "table", 1, <<111, 1, 1, 2>>, -1),
      E(NoName, NameA, "table", 1, <<112, 1, 0, 0>>, -1),
      E(NameA, NameEAcute, "global", 3, <<126, 1>>, -1),
      E(NameA, NameA, "memory", 2, <<3, 1, 2>>, -1),
      E(NameBomA, NameA, "memory", 2, <<0, 1>>, -1) }

\* a function type and its encoding
FT(parameters, results, bytes) ==
    [type |-> [parameters |-> parameters, results |-> results], bytes |-> bytes]

T0 == FT(<<"i32">>, <<>>, <<96, 1, 127, 0>>)

T1 == FT(<<>>, <<"i64">>, <<96, 0, 1, 126>>)

\* a section before or after the import section: a type section (id 1)
\* with its function types, or a section of another id with its body
TypeSec(fts) == [id |-> 1, types |-> fts, body |-> <<Len(fts)>> \o Concat(Map(LAMBDA t : t.bytes, fts))]

OtherSec(id, body) == [id |-> id, types |-> <<>>, body |-> body]

EncodeSection(sec) == <<sec.id, Len(sec.body)>> \o sec.body

EncodeEntry(e) ==
    <<Len(e.module.utf8)>> \o e.module.utf8 \o <<Len(e.name.utf8)>> \o e.name.utf8
      \o <<e.kindByte>> \o e.desc

ImportSec(entries) ==
    [id |-> 2, types |-> <<>>, body |-> <<Len(entries)>> \o Concat(Map(EncodeEntry, entries))]

\* the section lists that may precede the import section
PreSections ==
    { <<>>,
      <<OtherSec(0, <<1, 97, 2, 1, 0>>)>>,
      <<TypeSec(<<T0>>)>>,
      <<TypeSec(<<T0, T1>>)>>,
      <<TypeSec(<<T0>>), OtherSec(0, <<0>>), TypeSec(<<T1>>)>>,
      <<TypeSec(<<>>)>> }

\* the section lists that may follow it
PostSections ==
    { <<>>,
      <<OtherSec(3, <<1, 0>>)>>,
      <<ImportSec(<<E(NameA, NameA, "global", 3, <<127, 1>>, -1)>>)>> }

\* a module: has = it has an import section, entries = that section's entries
Mod(pre, has, entries, post) ==
    [pre |-> pre, has |-> has, entries |-> entries, post |-> post]

Modules ==
    {Mod(pre, TRUE, es, post) : pre \in PreSections, es \in SeqsUpTo(ImportEntries, MaxImports),
                                post \in PostSections}
      \cup {Mod(pre, FALSE, <<>>, post) : pre \in PreSections,
                                          post \in {<<>>, <<OtherSec(3, <<1, 0>>)>>}}

Encode(m) ==
    Header \o Concat(Map(EncodeSection, m.pre))
      \o (IF m.has THEN EncodeSection(ImportSec(m.entries)) ELSE <<>>)
      \o Concat(Map(EncodeSection, m.post))

\* the function types a module declares ahead of its import section
DeclaredTypes(m) == Concat(Map(LAMBDA sec : Map(LAMBDA t : t.type, sec.types), m.pre))

\* every function import names a declared type
WellFormed(m) ==
    \A i \in 1..Len(m.entries) :
        m.entries[i].kind = "function" => m.entries[i].index < Len(DeclaredTypes(m))

\* raw module bodies: concatenations of these chunks after a valid header
\* (the last three are whole sections of id 0, 3 and 0 whose size field
\* encodes 0xFFFFFFFA, 0xFFFFFFF9 and 300)
RawChunks ==
    { <<0>>, <<1>>, <<2>>, <<3>>, <<96>>, <<127>>, <<128>>,
      <<0, 250, 255, 255, 255, 15>>, <<3, 249, 255, 255, 255, 15>>, <<0, 172, 2>> }

RawBodies == {Concat(cs) : cs \in SeqsUpTo(RawChunks, MaxRawChunks)}

\* inputs that do not start with the header: its proper prefixes, and the
\* header with one byte replaced, each alone or followed by an import section
BadHeaders ==
    {SubSeq(Header, 1, n) : n \in 0..7}
      \cup {[Header EXCEPT ![i] = 2] : i \in 1..8}

BadHeaderInputs == {h \o t : h \in BadHeaders, t \in {<<>>, <<2, 6, 1, 0, 0, 2, 0, 1>>}}

\* every proper prefix of the modules with at most one import
SmallModules == {x \in Modules : Len(x.entries) <= 1 /\ x.post = <<>> /\ Len(x.pre) <= 1}

Truncations ==
    UNION {{SubSeq(Encode(m), 1, n) : n \in 8..(Len(Encode(m)) - 1)} : m \in SmallModules}

\* the argument as a Uint8Array over exactly its bytes
U8(b) == [rep |-> "Uint8Array", buffer |-> b, byteOffset |-> 0, byteLength |-> Len(b)]

\* the argument as a view of kind rep whose window is b, inside a buffer
\* that holds `front` before it and `back` after it
Viewed(rep, front, b, back) ==
    [rep |-> rep, buffer |-> front \o b \o back, byteOffset |-> Len(front),
     byteLength |-> Len(b)]

Pads == {<<>>, <<255>>, <<0, 97>>}

\* the other representations of the bytes b
OtherSources(b) ==
    {Viewed(rep, front, b, back) : rep \in {"Uint8Array", "view"}, front \in Pads, back \in Pads}
      \cup {Viewed("ArrayBuffer", <<>>, b, <<>>), Viewed("other", <<>>, b, <<>>)}

NoModule == Mod(<<>>, FALSE, <<>>, <<>>)

\* an input: the argument, and the module it encodes when it was generated
\* as one (known)
In(src, known, m) == [source |-> src, wasm |-> [known |-> known, module |-> m]]

Inputs ==
    {In(U8(Encode(m)), TRUE, m) : m \in Modules}
      \cup {In(U8(Header \o b), FALSE, NoModule) : b \in RawBodies}
      \cup {In(U8(b), FALSE, NoModule) : b \in BadHeaderInputs \cup Truncations}
      \cup UNION {{In(src, TRUE, m) : src \in OtherSources(Encode(m))} :
                    m \in {x \in SmallModules : x.pre = <<>>}}
      \cup UNION {{In(src, FALSE, NoModule) : src \in OtherSources(b)} :
                    b \in {<<>>, SubSeq(Header, 1, 4), Header \o <<2>>}}

\* ------------------------------------------------------------------------
\* One call of parseImports, a step at a time
\* ------------------------------------------------------------------------
VARIABLES
    source,       \* the argument moduleBytes of the call
    wasm,         \* the module the argument was generated from (history)
    pc,           \* where the call is
    moduleBytes,  \* ParseState.moduleBytes
    offset,       \* ParseState.offset
    types,        \* const types = []
    result,       \* the returned list
    error,        \* the thrown error
    overrun,      \* a read or skip went outside the bytes (history)
    idsRead,      \* section ids read so far (history)
    lastSection   \* id, size, start and end offset of the last iteration (history)

decoderVars ==
    <<source, wasm, pc, moduleBytes, offset, types, result, error, overrun, idsRead,
      lastSection>>

\* The polyfilled WebAssembly object and its callers
VARIABLES
    heap,      \* the bytes of each of the caller's buffers
    modules,   \* the module objects handed out: the bytes the host compiled
               \* (history), the imports stored in the object, the API used
    pending,   \* the asynchronous compilations under way
    returned   \* the module and the answer of the last Module.imports call

polyfillVars == <<heap, modules, pending, returned>>

vars == <<decoderVars, polyfillVars>>

NoSection == [id |-> Undefined, size |-> 0, start |-> 0, end |-> 0]

DecoderInit ==
    /\ \E inp \in Inputs : source = inp.source /\ wasm = inp.wasm
    /\ pc = "call"
    /\ moduleBytes = <<>>
    /\ offset = 0
    /\ types = <<>>
    /\ result = <<>>
    /\ error = "none"
    /\ overrun = FALSE
    /\ idsRead = 0
    /\ lastSection = NoSection

Throw(err) ==
    /\ pc' = "thrown"
    /\ error' = err

\* lines 270-282: normalize the argument, build the ParseState
ParseImportsCall ==
    /\ pc = "call"
    /\ LET bytes == Normalize(source)
       IN  IF bytes.ok
           THEN /\ moduleBytes' = bytes.v
                /\ pc' = "magic"
                /\ UNCHANGED error
           ELSE /\ Throw(bytes.err)
                /\ UNCHANGED moduleBytes
    /\ UNCHANGED <<source, wasm, offset, types, result, overrun, idsRead, lastSection>>
    /\ UNCHANGED polyfillVars

\* line 283
ParseMagicNumber ==
    /\ pc = "magic"
    /\ LET r == parseMagicNumber(moduleBytes, offset)
       IN  IF r.ok
           THEN /\ offset' = r.off
                /\ pc' = "version"
                /\ UNCHANGED error
           ELSE /\ Throw(r.err)
                /\ UNCHANGED offset
    /\ UNCHANGED <<source, wasm, moduleBytes, types, result, overrun, idsRead, lastSection>>
    /\ UNCHANGED polyfillVars

\* line 284
ParseVersion ==
    /\ pc = "version"
    /\ LET r == parseVersion(moduleBytes, offset)
       IN  IF r.ok
           THEN /\ offset' = r.off
                /\ pc' = "sections"
                /\ UNCHANGED error
           ELSE /\ Throw(r.err)
                /\ UNCHANGED offset
    /\ UNCHANGED <<source, wasm, moduleBytes, types, result, overrun, idsRead, lastSection>>
    /\ UNCHANGED polyfillVars

\* the assignments of one iteration `it` of the section loop
Iterated(it) ==
    /\ offset' = it.off
    /\ types' = it.types
    /\ overrun' = (overrun \/ it.eof)
    /\ idsRead' = Min(idsRead + 1, MaxIterations)
    /\ lastSection' = [id |-> it.id, size |-> it.size, start |-> offset, end |-> it.off]
    /\ CASE it.next = "return" -> pc' = "returned" /\ result' = it.result /\ UNCHANGED error
         [] it.next = "throw" -> Throw(it.err) /\ UNCHANGED result
         [] OTHER -> UNCHANGED <<pc, result, error>>
    /\ UNCHANGED <<source, wasm, moduleBytes>>
    /\ UNCHANGED polyfillVars

\* the section id the loop reads next
NextSectionId == readByte(moduleBytes, offset).v

\* one iteration of the section loop
Iterate ==
    /\ pc = "sections"
    /\ hasMoreBytes(moduleBytes, offset)
    /\ Iterated(SectionIteration(moduleBytes, offset, types))

\* lines 299-306
TypeSection == NextSectionId = 1 /\ Iterate

\* lines 307-334
ImportSection == NextSectionId = 2 /\ Iterate

\* lines 335-338
SkipSection == NextSectionId \notin {1, 2} /\ Iterate

\* the end of the loop throwing instead of returning []
ReturnEmpty_Throws ==
    /\ pc = "sections"
    /\ ~hasMoreBytes(moduleBytes, offset)
    /\ Throw("NoImportSection")
    /\ UNCHANGED <<source, wasm, moduleBytes, offset, types, result, overrun, idsRead,
                   lastSection>>
    /\ UNCHANGED polyfillVars

\* lines 295, 341: the loop test fails, return []
ReturnEmpty ==
    /\ pc = "sections"
    /\ ~hasMoreBytes(moduleBytes, offset)
    /\ pc' = "returned"
    /\ result' = <<>>
    /\ UNCHANGED <<source, wasm, moduleBytes, offset, types, error, overrun, idsRead,
                   lastSection>>
    /\ UNCHANGED polyfillVars

Next ==
    \/ ParseImportsCall
    \/ ParseMagicNumber
    \/ ParseVersion
    \/ TypeSection
    \/ ImportSection
    \/ SkipSection
    \/ ReturnEmpty

\* ------------------------------------------------------------------------
\* polyfill(WebAssembly) where type reflection is not native: the object
\* built at src/polyfill.js lines 47-110, its callers and the host
\* ------------------------------------------------------------------------

\* the most modules compiled, counting the compilations under way
MaxModules == 2

\* the caller's buffers
NumBuffers == 2

Buffers == 1..NumBuffers

\* the values the caller writes to the last byte (the initial pages) of a buffer
PageCounts == {1, 2}

\* the modules the caller's buffers hold: the minimal module, with each
\* page count
PolyfillBytes == {[MinimalModuleBytes EXCEPT ![16] = n] : n \in PageCounts}

\* module[polyfilledImportsSymbol] of a module that was never assigned one
NotAssigned == <<[undefined |-> TRUE]>>

PolyfillInit ==
    /\ heap \in [Buffers -> PolyfillBytes]
    /\ modules = <<>>
    /\ pending = <<>>
    /\ returned = [module |-> 0, value |-> <<>>]

Room == Len(modules) + Len(pending) < MaxModules

Remove(seq, i) == SubSeq(seq, 1, i - 1) \o SubSeq(seq, i + 1, Len(seq))

\* the module object after assignImports(module, sourceBytes), line 60;
\* parseImports throwing leaves the caller without the module
Assigned(stable, by, parsed) ==
    IF parsed.status = "return"
    THEN Append(modules, [bytes |-> stable, imports |-> parsed.result, by |-> by])
    ELSE modules

\* new Module(bytes), lines 72-77: the host compiles a copy of the bytes,
\* then the bytes are parsed, in one synchronous call
NewModule(b) ==
    /\ Room
    /\ modules' = Assigned(heap[b], "Module", parseImports(U8(heap[b])))
    /\ UNCHANGED <<heap, pending, returned>>
    /\ UNCHANGED decoderVars

\* compile(source), lines 81-82: the host copies the bytes and starts to
\* compile; the call waits
CompileCall(b) ==
    /\ Room
    /\ pending' = Append(pending, [api |-> "compile", source |-> b, stable |-> heap[b],
                                   stage |-> "compiling"])
    /\ UNCHANGED <<heap, modules, returned>>
    /\ UNCHANGED decoderVars

\* lines 82-85: the host's promise resolves; the source is parsed as it is now
CompileResume(i) ==
    /\ i \in 1..Len(pending)
    /\ pending[i].api = "compile"
    /\ modules' = Assigned(pending[i].stable, "compile",
                           parseImports(U8(heap[pending[i].source])))
    /\ pending' = Remove(pending, i)
    /\ UNCHANGED <<heap, returned>>
    /\ UNCHANGED decoderVars

\* compileStreaming(new Response(bytes)), lines 90-91: the response body
\* is a copy of the bytes
CompileStreamingCall(b) ==
    /\ Room
    /\ pending' = Append(pending, [api |-> "compileStreaming", source |-> b,
                                   stable |-> heap[b], stage |-> "response"])
    /\ UNCHANGED <<heap, modules, returned>>
    /\ UNCHANGED decoderVars

\* lines 91-93: the response arrives, is cloned and handed to the host
CompileStreamingStart(i) ==
    /\ i \in 1..Len(pending)
    /\ pending[i].api = "compileStreaming"
    /\ pending[i].stage = "response"
    /\ pending' = [pending EXCEPT ![i].stage = "compiling"]
    /\ UNCHANGED <<heap, modules, returned>>
    /\ UNCHANGED decoderVars

\* lines 93-94: the host's promise resolves; the clone's body is read
CompileStreamingRead(i) ==
    /\ i \in 1..Len(pending)
    /\ pending[i].api = "compileStreaming"
    /\ pending[i].stage = "compiling"
    /\ pending' = [pending EXCEPT ![i].stage = "reading"]
    /\ UNCHANGED <<heap, modules, returned>>
    /\ UNCHANGED decoderVars

\* lines 94-96: the clone's bytes are parsed
CompileStreamingResume(i) ==
    /\ i \in 1..Len(pending)
    /\ pending[i].api = "compileStreaming"
    /\ pending[i].stage = "reading"
    /\ modules' = Assigned(pending[i].stable, "compileStreaming",
                           parseImports(U8(pending[i].stable)))
    /\ pending' = Remove(pending, i)
    /\ UNCHANGED <<heap, returned>>
    /\ UNCHANGED decoderVars

\* instantiate is copied from the host unchanged (lines 51-53): its module
\* carries no parsed imports
Instantiate(b) ==
    /\ Room
    /\ modules' = Append(modules, [bytes |-> heap[b], imports |-> NotAssigned,
                                   by |-> "instantiate"])
    /\ UNCHANGED <<heap, pending, returned>>
    /\ UNCHANGED decoderVars

\* the host's Module.imports without type reflection: no type field
HostImports(bytes) ==
    Map(LAMBDA e : [module |-> e.module, name |-> e.name, kind |-> e.kind],
        Decode(bytes).result)

\* Module.imports(module), lines 101-108
ModuleImports(i) ==
    /\ i \in 1..Len(modules)
    /\ returned' = [module |-> i,
                    value |-> IF modules[i].imports = NotAssigned
                              THEN HostImports(modules[i].bytes)
                              ELSE modules[i].imports]
    /\ UNCHANGED <<heap, modules, pending>>
    /\ UNCHANGED decoderVars

\* the caller writes the page count n into its buffer b
CallerWrite(b, n) ==
    /\ heap[b][16] # n
    /\ heap' = [heap EXCEPT ![b][16] = n]
    /\ UNCHANGED <<modules, pending, returned>>
    /\ UNCHANGED decoderVars

NextPolyfill ==
    \/ \E b \in Buffers : NewModule(b)
    \/ \E b \in Buffers : CompileCall(b)
    \/ \E i \in 1..MaxModules : CompileResume(i)
    \/ \E b \in Buffers : CompileStreamingCall(b)
    \/ \E i \in 1..MaxModules : CompileStreamingStart(i)
    \/ \E i \in 1..MaxModules : CompileStreamingRead(i)
    \/ \E i \in 1..MaxModules : CompileStreamingResume(i)
    \/ \E b \in Buffers : Instantiate(b)
    \/ \E i \in 1..MaxModules : ModuleImports(i)
    \/ \E b \in Buffers, n \in PageCounts : CallerWrite(b, n)

\* ------------------------------------------------------------------------
\* The specifications
\* ------------------------------------------------------------------------

\* no call of parseImports is being followed
DecoderIdle ==
    /\ source = U8(<<>>)
    /\ wasm = [known |-> FALSE, module |-> NoModule]
    /\ pc = "idle"
    /\ moduleBytes = <<>>
    /\ offset = 0
    /\ types = <<>>
    /\ result = <<>>
    /\ error = "none"
    /\ overrun = FALSE
    /\ idsRead = 0
    /\ lastSection = NoSection

\* no polyfilled object is in use
PolyfillIdle ==
    /\ heap = [b \in Buffers |-> MinimalModuleBytes]
    /\ modules = <<>>
    /\ pending = <<>>
    /\ returned = [module |-> 0, value |-> <<>>]

\* one call of parseImports on each input
Init == DecoderInit /\ PolyfillIdle

Spec == Init /\ [][Next]_vars

\* the polyfilled WebAssembly object and its callers
InitPolyfill == PolyfillInit /\ DecoderIdle

SpecPolyfill == InitPolyfill /\ [][NextPolyfill]_vars

\* ------------------------------------------------------------------------
\* Properties of the decoder
\* ------------------------------------------------------------------------

Terminated == pc \in {"returned", "thrown"}

\* the ParseState holds the bytes of the argument
Normalized == pc # "call" /\ error # "InvalidArgumentType"

HeaderValid(bs) == Len(bs) >= 8 /\ SubSeq(bs, 1, 8) = Header

\* the call decodes exactly the encoding of the well-formed module in wasm
DecodesWellFormed ==
    /\ wasm.known
    /\ wasm.module.has
    /\ WellFormed(wasm.module)
    /\ Normalized
    /\ moduleBytes = Encode(wasm.module)

\* entry i of the result has the names and the kind of entry i of the module
Carries(i) ==
    /\ result[i].module = wasm.module.entries[i].module.text
    /\ result[i].name = wasm.module.entries[i].name.text
    /\ result[i].kind = wasm.module.entries[i].kind

\* C1: a well-formed module with N import entries decodes to N entries, the
\* i-th carrying the module name, field name and kind of the i-th encoded
C1_DeclarationOrder ==
    (Terminated /\ DecodesWellFormed) =>
        /\ pc = "returned"
        /\ Len(result) = Len(wasm.module.entries)
        /\ \A i \in 1..Len(result) : Carries(i)

\* C2: the canonical minimal module decodes to exactly one memory import
\* with type {minimum: 1, shared: false, index: "i32"} and no other field
C2_MinimalModule ==
    (Terminated /\ Normalized /\ moduleBytes = MinimalModuleBytes) =>
        /\ pc = "returned"
        /\ result = << [module |-> <<>>, name |-> <<>>, kind |-> "memory",
                        type |-> [minimum |-> 1, shared |-> FALSE, index |-> "i32"]] >>

C2_Witness == pc = "returned" /\ moduleBytes = MinimalModuleBytes /\ Len(result) = 1

\* what may follow the import section in another input
Tails ==
    { <<>>, <<3, 2, 1, 0>>, <<1, 1, 1, 0>>, <<255, 255>>, <<2, 6, 1, 0, 0, 2, 0, 1>> }

\* the call returned from the import section, having read only bytes it has
ReturnedFromImports ==
    pc = "returned" /\ lastSection.id = 2 /\ offset <= Len(moduleBytes) /\ ~overrun

SameReturn(o) == o.status = "return" /\ o.result = result

EndedWithoutImportSection ==
    Terminated /\ Normalized /\ HeaderValid(moduleBytes) /\ lastSection.id # 2

\* C4 as stated: with a valid header and no section of id 2 met, the call
\* scans to the end and returns the empty sequence, never an error
C4_AlwaysEmpty ==
    EndedWithoutImportSection =>
        pc = "returned" /\ result = <<>> /\ ~hasMoreBytes(moduleBytes, offset)

\* C4 amended: such a call, when it ends, either has scanned to the end and
\* returns the empty sequence, or was aborted by a type section that failed
\* to decode
C4_EmptyOrTypeError ==
    EndedWithoutImportSection =>
        \/ pc = "returned" /\ result = <<>> /\ ~hasMoreBytes(moduleBytes, offset)
        \/ /\ pc = "thrown"
           /\ lastSection.id = 1
           /\ error \in {"InvalidFunctionTypeForm", "UnknownValueType"}

\* the end of input reached after a type section and another section
C4_Witness ==
    /\ EndedWithoutImportSection
    /\ pc = "returned"
    /\ types # <<>>
    /\ idsRead >= 2

\* C5: an input that does not start with the 8 header bytes fails with a
\* header error; no section id is read and no list is returned
C5_HeaderError ==
    (Normalized /\ ~HeaderValid(moduleBytes)) =>
        /\ pc \in {"magic", "version", "thrown"}
        /\ pc = "thrown" => error = "header"
        /\ idsRead = 0
        /\ offset \in {0, 4}
        /\ result = <<>>

\* a header error on an input shorter than the header
C5_Witness ==
    /\ pc = "thrown"
    /\ error = "header"
    /\ Len(moduleBytes) \in 1..7
    /\ idsRead = 0

\* C6: a call that read or skipped outside the input fails: it returns no list
C6_TruncatedFails == overrun => pc # "returned"

\* C7: the call ends as the decoding of the window of its argument ends,
\* whatever the representation; an argument that is no buffer source fails
\* with the argument-type error
C7_SameForEveryRepresentation ==
    Terminated =>
        IF source.rep = "other" THEN pc = "thrown" /\ error = "InvalidArgumentType"
        ELSE \/ pc = "returned" /\ SameReturn(Decode(Window(source)))
             \/ pc = "thrown" /\ Decode(Window(source)).status = "throw"
                              /\ Decode(Window(source)).err = error

\* C8: every iteration of the section loop leaves the offset greater than
\* it found it
C8_LoopAdvances == [][(pc = "sections" /\ pc' = "sections") => offset' > offset]_vars

\* C9: no returned entry of kind "function" has an undefined type
C9_FunctionTypeDefined ==
    (pc = "returned" /\ ~overrun) =>
        \A i \in 1..Len(result) :
            result[i].kind = "function" => result[i].type # UndefinedType

\* The names of the result are the encoded names without one leading U+FEFF
DeclarationOrderUpToBOM ==
    (Terminated /\ DecodesWellFormed) =>
        /\ pc = "returned"
        /\ Len(result) = Len(wasm.module.entries)
        /\ \A i \in 1..Len(result) :
              /\ result[i].module = DropBOM(wasm.module.entries[i].module.text)
              /\ result[i].name = DropBOM(wasm.module.entries[i].name.text)
              /\ result[i].kind = wasm.module.entries[i].kind

\* the call returned the import section of the well-formed module in wasm
ReturnedWellFormed == pc = "returned" /\ DecodesWellFormed /\ lastSection.id = 2

\* entry i of the module is a function import and entry i of the result has
\* the function type of its index in the list typeList
Resolved(i, typeList) ==
    wasm.module.entries[i].kind = "function" =>
        /\ result[i].kind = "function"
        /\ result[i].type = typeList[wasm.module.entries[i].index + 1]

\* C11: the type list is the function types of the type sections before the
\* import section, in order, and a function import of in-range index k has
\* the k-th of them as its type, parameters and results in encoded order
C11_FunctionTypeResolution ==
    ReturnedWellFormed =>
        /\ types = DeclaredTypes(wasm.module)
        /\ Len(result) = Len(wasm.module.entries)
        /\ \A i \in 1..Len(result) : Resolved(i, DeclaredTypes(wasm.module))
        /\ (moduleBytes = Header \o <<1, 5, 1, 96, 1, 127, 0, 2, 7, 1, 1, 97, 1, 97, 0, 0>>) =>
              result[1].type = [parameters |-> <<"i32">>, results |-> <<>>]

\* two type sections with a section between them, and a function import of
\* the type the second one declares
C11_Witness ==
    /\ ReturnedWellFormed
    /\ Len(wasm.module.pre) = 3
    /\ Len(types) = 2
    /\ \E i \in 1..Len(result) :
          /\ result[i].kind = "function"
          /\ wasm.module.entries[i].index = 1
          /\ result[i].type = [parameters |-> <<>>, results |-> <<"i64">>]

\* the offset after the unsigned LEB128 number that starts at off: after the
\* first byte without the continuation bit (-1: the input ends before it)
RECURSIVE LEBEnd(_, _)
LEBEnd(bs, off) ==
    IF ~InBounds(bs, off) THEN -1
    ELSE IF bs[off + 1] >= 128 THEN LEBEnd(bs, off + 1)
    ELSE off + 1

\* the low 7 bits of byte i (from 0) of the number at off, 0 after its end
LEBGroup(bs, off, i) ==
    IF off + i < LEBEnd(bs, off) THEN bs[off + i + 1] % 128 ELSE 0

\* the number at off ends inside the input and fits in 32 bits unsigned
LEBFits(bs, off) ==
    /\ LEBEnd(bs, off) # -1
    /\ LEBGroup(bs, off, 4) < 16
    /\ \A i \in 5..(LEBEnd(bs, off) - off) : LEBGroup(bs, off, i) = 0

\* bits 0..27 and bits 28..31 of the sum of (b_i & 0x7F) * 128^i
LEBLow(bs, off) ==
    LEBGroup(bs, off, 0) + 128 * LEBGroup(bs, off, 1) + 16384 * LEBGroup(bs, off, 2)
      + 2097152 * LEBGroup(bs, off, 3)

LEBHigh(bs, off) == LEBGroup(bs, off, 4)

\* an iteration of the section loop was made: its size field is at start + 1
SizeRead == idsRead > 0 /\ LEBFits(moduleBytes, lastSection.start + 1)

\* C12: readUnsignedLEB128 on a number that fits in 32 bits unsigned returns
\* the non-negative sum of (b_i & 0x7F) * 128^i and consumes exactly the
\* bytes up to the first one without the continuation bit
C12_UnsignedLEB128 ==
    SizeRead =>
        /\ lastSection.size >= 0
        /\ lastSection.size % 268435456 = LEBLow(moduleBytes, lastSection.start + 1)
        /\ lastSection.size \div 268435456 = LEBHigh(moduleBytes, lastSection.start + 1)
        /\ lastSection.id \notin {1, 2} =>
              lastSection.end - lastSection.size = LEBEnd(moduleBytes, lastSection.start + 1)

\* the same for the numbers below 2^31
LEB128Below2Pow31 ==
    (SizeRead /\ LEBGroup(moduleBytes, lastSection.start + 1, 4) < 8) => C12_UnsignedLEB128

\* the fields a table type has when its limits have the flags byte `flags`
TableFields(flags) ==
    IF flags % 2 = 1 THEN {"element", "minimum", "maximum"} ELSE {"element", "minimum"}

\* the table type encoded by the descriptor desc: element byte, flags,
\* minimum and, with bit 0 of the flags, maximum, each number one byte
TableEncoded(desc) ==
    [f \in TableFields(desc[2]) |->
        CASE f = "element" -> IF desc[1] = 112 THEN "funcref" ELSE "externref"
          [] f = "minimum" -> desc[3]
          [] OTHER -> desc[4]]

\* every element byte but 0x70 and 0x6F fails
ElementBytesRejected ==
    \A b \in (0..255) \ {111, 112} :
        parseTableType(<<b, 0, 1>>, 0).err = "UnknownElementType"

\* C13: the type of a table import has the element of its element byte, the
\* decoded minimum, a maximum exactly when bit 0 of the flags is set, with
\* the decoded value (0 included), and neither shared nor index
C13_TableType ==
    /\ ElementBytesRejected
    /\ ReturnedWellFormed =>
          \A i \in 1..Len(result) :
              wasm.module.entries[i].kind = "table" =>
                  /\ result[i].kind = "table"
                  /\ result[i].type = TableEncoded(wasm.module.entries[i].desc)

\* the same with the maximum left out when it is 0
TableTypeUpToZeroMaximum ==
    /\ ElementBytesRejected
    /\ ReturnedWellFormed =>
          \A i \in 1..Len(result) :
              wasm.module.entries[i].kind = "table" =>
                  /\ result[i].kind = "table"
                  /\ result[i].type =
                        IF "maximum" \in DOMAIN TableEncoded(wasm.module.entries[i].desc)
                              /\ TableEncoded(wasm.module.entries[i].desc).maximum = 0
                        THEN [f \in {"element", "minimum"} |->
                                 TableEncoded(wasm.module.entries[i].desc)[f]]
                        ELSE TableEncoded(wasm.module.entries[i].desc)

\* the last iteration met a section of the input whose id is neither 1 nor 2
\* and whose declared size fits in the input left after the size field
SkippedInside ==
    /\ idsRead > 0
    /\ lastSection.id \notin {1, 2, Undefined}
    /\ LEBFits(moduleBytes, lastSection.start + 1)
    /\ LEBHigh(moduleBytes, lastSection.start + 1) = 0
    /\ LEBEnd(moduleBytes, lastSection.start + 1)
          + LEBLow(moduleBytes, lastSection.start + 1) <= Len(moduleBytes)

\* the sections of secs that the loop skips, each body replaced by as many
\* bytes 2
Blanked(secs) ==
    [i \in 1..Len(secs) |->
        IF secs[i].id \in {1, 2} THEN secs[i]
        ELSE OtherSec(secs[i].id, [j \in 1..Len(secs[i].body) |-> 2])]

\* secs without the sections that the loop skips
Kept(secs) == SelectSeq(secs, LAMBDA sec : sec.id \in {1, 2})

\* the call ended on the encoding of the module in wasm
EndedOnModule ==
    Terminated /\ wasm.known /\ Normalized /\ moduleBytes = Encode(wasm.module)

\* the call ended as the outcome o of the function form
SameOutcome(o) ==
    \/ pc = "returned" /\ o.status = "return" /\ o.result = result
    \/ pc = "thrown" /\ o.status = "throw" /\ o.err = error

SkippedAndContinuing ==
    SkippedInside /\ pc = "sections" /\ lastSection.size = 5 /\ hasMoreBytes(moduleBytes, offset)

\* ------------------------------------------------------------------------
\* Properties of the polyfill
\* ------------------------------------------------------------------------

Hooked == {"Module", "compile", "compileStreaming"}

\* C10: Module.imports of a module made by the polyfilled Module, compile or
\* compileStreaming answers parseImports of the bytes the host compiled it from
C10_ImportsOfCompiledBytes ==
    (returned.module # 0 /\ modules[returned.module].by \in Hooked) =>
        returned.value = parseImports(U8(modules[returned.module].bytes)).result

====
